---- MODULE Spec2Model ----
(***************************************************************************)
(* Model of tools/build_flat_atlas.py: the frame extractor, the greedy     *)
(* shelf packer, the sheet assembler of main and the HTML reference        *)
(* patcher.                                                                *)
(*                                                                         *)
(* Three specifications share the variables:                               *)
(*   Spec      one run of main (load, extract, widen, pack, composite,     *)
(*             write image, write JSON, optional HTML patch);              *)
(*   SpecPack  pack_sprites applied to arbitrary bounded inputs;           *)
(*   SpecHtml  update_html applied repeatedly to bounded documents.        *)
(***************************************************************************)
EXTENDS Integers, Sequences, FiniteSets, TLC

VARIABLES
    pc,           \* position of the run
    args,         \* parsed command line: max_width, padding, update_html
    disk,         \* input files: sheet0, sheet1, atlas0, atlas1
    frames,       \* main: list of {key, frame, sheet}
    extracted,    \* main: list of {key, img, w, h, anchor}; pack_sprites' items
    max_w,        \* main: widest extracted sprite so far
    max_width,    \* sheet width handed to pack_sprites
    packed,       \* result of pack_sprites: placed, atlas_w, atlas_h
    pasted,       \* images pasted on the output canvas, in order
    out_frames,   \* output atlas "frames": list of <<key, entry>>, keys unique
    written,      \* output files written so far
    html,         \* content of the HTML file once read, a sequence of tokens
    json_text,    \* atlas JSON text handed to update_html
    prev_html,    \* content of the HTML file before the latest update_html
    orig_html,    \* history: content of the HTML file at the start
    runs,         \* number of completed update_html calls
    steps,        \* history: the steps of main completed so far
    abort_cause   \* why the run aborted ("" while it has not)

vars == <<pc, args, disk, frames, extracted, max_w, max_width, packed, pasted,
          out_frames, written, html, json_text, prev_html, orig_html, runs, steps,
          abort_cause>>

----------------------------------------------------------------------------
(* Bounds of the model *)

MaxItems == 3        \* SpecPack: rectangles per call
MaxW == 2            \* SpecPack: rectangle widths 0..MaxW
MaxH == 1            \* SpecPack: rectangle heights 0..MaxH
MaxPad == 1          \* SpecPack: paddings 0..MaxPad
MaxSheetW == 7       \* SpecPack: max_width 0..MaxSheetW
MaxFrames0 == 2      \* Spec: frames in sprites-0.json
MaxFrames1 == 1      \* Spec: frames in sprites-1.json
MaxDocLen == 4       \* SpecHtml: tokens in an arbitrary document
MaxRuns == 2         \* SpecHtml: update_html calls on one file

----------------------------------------------------------------------------
(* Helpers *)

Max(a, b) == IF a >= b THEN a ELSE b

Min(a, b) == IF a <= b THEN a ELSE b

Range(s) == {s[i] : i \in 1..Len(s)}

\* sequences over S of length at most n
SeqsUpTo(S, n) == UNION {[1..k -> S] : k \in 0..n}

----------------------------------------------------------------------------
(* pack_sprites *)

\* one step of the stable sort: `it` goes behind every item at least as high
RECURSIVE InsertByHeight(_, _)
InsertByHeight(sorted, it) ==
    IF sorted = <<>> THEN <<it>>
    ELSE IF Head(sorted).h >= it.h
         THEN <<Head(sorted)>> \o InsertByHeight(Tail(sorted), it)
         ELSE <<it>> \o sorted

\* a sort that puts an item in front of the items of its own height
RECURSIVE InsertByHeightUnstable(_, _)
InsertByHeightUnstable(sorted, it) ==
    IF sorted = <<>> THEN <<it>>
    ELSE IF Head(sorted).h > it.h
         THEN <<Head(sorted)>> \o InsertByHeightUnstable(Tail(sorted), it)
         ELSE <<it>> \o sorted

RECURSIVE SortedByHeightUnstable(_)
SortedByHeightUnstable(items) ==
    IF items = <<>> THEN <<>>
    ELSE InsertByHeightUnstable(
             SortedByHeightUnstable(SubSeq(items, 1, Len(items) - 1)),
             items[Len(items)])

\* sorted(items, key=lambda it: it["h"], reverse=True)
RECURSIVE SortedByHeightDesc(_)
SortedByHeightDesc(items) ==
    IF items = <<>> THEN <<>>
    ELSE InsertByHeight(SortedByHeightDesc(SubSeq(items, 1, Len(items) - 1)),
                        items[Len(items)])

\* the packer's cursor before the loop
PackStart(padding) ==
    [x |-> padding, y |-> padding, shelf_h |-> 0, placed |-> <<>>,
     shelf |-> 0, shelves |-> <<>>]

\* a loop body that never starts a new shelf
PlaceItemNoWrap(st, it, mw, padding) ==
    LET w == it.w + padding * 2
        h == it.h + padding * 2
    IN  [x |-> st.x + w, y |-> st.y, shelf_h |-> Max(st.shelf_h, h),
         placed |-> Append(st.placed,
                       ("x" :> (st.x + padding) @@ "y" :> (st.y + padding)) @@ it),
         shelf |-> st.shelf, shelves |-> Append(st.shelves, st.shelf)]

\* the body of the loop over the sorted items.  shelf and shelves are history:
\* the number of times the new-shelf branch ran before each placement.
PlaceItem(st, it, mw, padding) ==
    LET w == it.w + padding * 2
        h == it.h + padding * 2
        wrap == st.x + w > mw /\ st.x > padding
        x1 == IF wrap THEN padding ELSE st.x
        y1 == IF wrap THEN st.y + st.shelf_h ELSE st.y
        sh1 == IF wrap THEN 0 ELSE st.shelf_h
        shelf1 == IF wrap THEN st.shelf + 1 ELSE st.shelf
    IN  [x |-> x1 + w, y |-> y1, shelf_h |-> Max(sh1, h),
         placed |-> Append(st.placed,
                       ("x" :> (x1 + padding) @@ "y" :> (y1 + padding)) @@ it),
         shelf |-> shelf1, shelves |-> Append(st.shelves, shelf1)]

RECURSIVE PackLoop(_, _, _, _)
PackLoop(st, items, mw, padding) ==
    IF items = <<>> THEN st
    ELSE PackLoop(PlaceItem(st, Head(items), mw, padding), Tail(items),
                  mw, padding)

pack_sprites(items, mw, padding) ==
    LET st == PackLoop(PackStart(padding), SortedByHeightDesc(items), mw, padding)
    IN  [placed |-> st.placed, atlas_w |-> mw, atlas_h |-> st.y + st.shelf_h,
         shelves |-> st.shelves]

NotPacked == [placed |-> <<>>, atlas_w |-> 0, atlas_h |-> 0, shelves |-> <<>>]

----------------------------------------------------------------------------
(* extract_sprite *)

Absent == [kind |-> "absent"]

\* crop_box of a frame whose "frame" field is fr
CropBox(fr, rotated) ==
    IF rotated
    THEN [left |-> fr.x, upper |-> fr.y, right |-> fr.x + fr.h, lower |-> fr.y + fr.w]
    ELSE [left |-> fr.x, upper |-> fr.y, right |-> fr.x + fr.w, lower |-> fr.y + fr.h]

\* the box lies inside the sheet
BoxInSheet(box, sheet) ==
    /\ 0 <= box.left /\ box.left <= box.right /\ box.right <= sheet.w
    /\ 0 <= box.upper /\ box.upper <= box.lower /\ box.lower <= sheet.h

\* sheet.crop(crop_box): Image.crop returns an image of the size of the box
\* whatever the box; the part of the box outside the sheet is transparent.
\* (It raises only for right < left or lower < upper, which no frame here has.)
Crop(sheet, box) ==
    [w |-> box.right - box.left, h |-> box.lower - box.upper,
     sheet |-> sheet.id, box |-> box]

\* crop.transpose(Image.ROTATE_90) swaps the sides
Rotate90(crop) == [crop EXCEPT !.w = crop.h, !.h = crop.w]

\* the result is [ok |-> FALSE, error] when the function raises, else the image:
\* a canvas of size sourceSize with the crop pasted at spriteSourceSize.{x,y}
extract_sprite(sheet, frame) ==
    IF frame.frame = Absent
    THEN [ok |-> FALSE, error |-> "KeyError"]
    ELSE
    LET fr == frame.frame
        sss == IF frame.spriteSourceSize = Absent
               THEN [x |-> 0, y |-> 0, w |-> fr.w, h |-> fr.h]
               ELSE frame.spriteSourceSize
        src_size == IF frame.sourceSize = Absent
                    THEN [w |-> fr.w, h |-> fr.h]
                    ELSE frame.sourceSize
        rotated == frame.rotated
        crop0 == Crop(sheet, CropBox(fr, rotated))
        crop == IF rotated THEN Rotate90(crop0) ELSE crop0
    IN  [ok |-> TRUE,
         size |-> [w |-> src_size.w, h |-> src_size.h],
         crop |-> crop, at |-> [x |-> sss.x, y |-> sss.y]]

----------------------------------------------------------------------------
(* update_html.  A document is a sequence of tokens; the markers, the fixed  *)
(* fragments and the line break are tokens of their own.                    *)

SHEETS_START == "<!-- INLINE_SHEETS_START -->"
SHEETS_END == "<!-- INLINE_SHEETS_END -->"
ATLASES_START == "<!-- INLINE_ATLASES_START -->"
ATLASES_END == "<!-- INLINE_ATLASES_END -->"
NL == "\n"
EXTERNAL_SHEET == "<!-- External sheet: assets/flat-sprites.webp -->"
SCRIPT_OPEN == "<script id=atlasFlat type=application/json>"
SCRIPT_CLOSE == "</script>"
\* the two fixed source fragments and what replaces them
ATLAS_FRAGMENT == "const ATLAS_0 = getInlineJson(atlas0);\nconst ATLAS_1 = getInlineJson(atlas1);\n"
ATLAS_FRAGMENT_NEW == "const ATLAS_0 = getInlineJson(atlasFlat);\nconst ATLAS_1 = { frames: {} };\n"
SHEET_FRAGMENT == "const SHEET_0_SRC = getInlineDataUrl(sheet0); ... SHEET_1_FALLBACK = ASSETS_URL + /sprites-1.webp;\n\n"
SHEET_FRAGMENT_NEW == "const SHEET_0_SRC = ASSETS_URL + /flat-sprites.webp; ... SHEET_1_FALLBACK = null;\n\n"
TEXT == "text"

sheets_block == <<SHEETS_START, NL, EXTERNAL_SHEET, NL, SHEETS_END, NL>>

atlas_block(atlas_json_text) ==
    <<ATLASES_START, NL, SCRIPT_OPEN, NL>> \o atlas_json_text
        \o <<NL, SCRIPT_CLOSE, NL, ATLASES_END, NL>>

\* sep in s
Contains(s, sep) == \E i \in 1..Len(s) : s[i] = sep

\* s.split(sep, 1): two parts around the first sep, or s alone
SplitOnce(s, sep) ==
    IF Contains(s, sep)
    THEN LET i == CHOOSE k \in 1..Len(s) :
                      s[k] = sep /\ \A m \in 1..(k - 1) : s[m] # sep
         IN  <<SubSeq(s, 1, i - 1), SubSeq(s, i + 1, Len(s))>>
    ELSE <<s>>

\* the guarded splice of one marker pair; the two-name unpacking of the
\* second split raises ValueError when it yields one part
ReplaceBlock(doc, start, end, block) ==
    IF Contains(doc, start) /\ Contains(doc, end)
    THEN LET before == SplitOnce(doc, start)[1]
             rest == SplitOnce(doc, start)[2]
             parts == SplitOnce(rest, end)
         IN  IF Len(parts) = 2
             THEN [ok |-> TRUE, html |-> before \o block \o parts[2]]
             ELSE [ok |-> FALSE, html |-> doc]
    ELSE [ok |-> TRUE, html |-> doc]

\* html.replace(old, new)
Replace(doc, old, new) ==
    [i \in 1..Len(doc) |-> IF doc[i] = old THEN new ELSE doc[i]]

\* [ok |-> FALSE] when the function raises (the file is then not written),
\* else the text written back to the file
update_html(doc, atlas_json_text) ==
    LET r1 == ReplaceBlock(doc, SHEETS_START, SHEETS_END, sheets_block)
        r2 == ReplaceBlock(r1.html, ATLASES_START, ATLASES_END,
                           atlas_block(atlas_json_text))
    IN  IF ~r1.ok THEN [ok |-> FALSE, html |-> doc]
        ELSE IF ~r2.ok THEN [ok |-> FALSE, html |-> doc]
        ELSE [ok |-> TRUE,
              html |-> Replace(Replace(r2.html, ATLAS_FRAGMENT, ATLAS_FRAGMENT_NEW),
                               SHEET_FRAGMENT, SHEET_FRAGMENT_NEW)]

\* an HTML file with both marker pairs and both fragments, and one whose
\* sheet END marker comes before the START marker
TypicalDoc ==
    <<TEXT, NL, SHEETS_START, NL, TEXT, NL, SHEETS_END, NL,
      ATLASES_START, NL, TEXT, NL, ATLASES_END, NL,
      ATLAS_FRAGMENT, SHEET_FRAGMENT, TEXT>>
ReversedDoc == <<SHEETS_END, NL, SHEETS_START, NL, ATLAS_FRAGMENT>>

MainDocs == {TypicalDoc, ReversedDoc}

----------------------------------------------------------------------------
(* main *)

Missing == [kind |-> "missing"]        \* the file does not exist
Malformed == [kind |-> "malformed"]    \* the file is not JSON

\* the anchor main uses for a frame without one, in tenths
DefaultAnchor == [x |-> 5, y |-> 5]

\* a list that takes a second entry for a key it has
DictSetAppend(d, key, entry) == Append(d, [key |-> key, entry |-> entry])

\* a dict that keeps the first entry of a key
DictSetKeepFirst(d, key, entry) ==
    IF \E i \in 1..Len(d) : d[i].key = key
    THEN d
    ELSE Append(d, [key |-> key, entry |-> entry])

\* out_frames[key] = entry on an insertion-ordered dict
DictSet(d, key, entry) ==
    IF \E i \in 1..Len(d) : d[i].key = key
    THEN [i \in 1..Len(d) |->
             IF d[i].key = key THEN [key |-> key, entry |-> entry] ELSE d[i]]
    ELSE Append(d, [key |-> key, entry |-> entry])

Keys(d) == {d[i].key : i \in 1..Len(d)}

\* (data.get("frames") or {}).items() tagged with the sheet number
TaggedFrames(atlas, sheet) ==
    [i \in 1..Len(atlas.frames) |->
        [key |-> atlas.frames[i].key, frame |-> atlas.frames[i].frame,
         sheet |-> sheet]]

\* json.dumps(out_json, separators=(",", ":")): the keys in dict order between
\* the braces, then the meta block
JsonDumps(d, w, h) ==
    <<"{frames:">> \o [i \in 1..Len(d) |-> d[i].key]
        \o <<"meta:", ToString(w), ToString(h), "}">>

\* the first input that cannot be loaded, in the order main opens them
LoadError ==
    IF disk.sheet0 = Missing \/ disk.sheet1 = Missing THEN "missing_input"
    ELSE IF disk.atlas0 = Missing THEN "missing_input"
    ELSE IF disk.atlas0 = Malformed THEN "malformed_json"
    ELSE IF disk.atlas1 = Missing THEN "missing_input"
    ELSE IF disk.atlas1 = Malformed THEN "malformed_json"
    ELSE ""

Abort(cause) ==
    /\ pc' = "aborted"
    /\ abort_cause' = cause

\* lines 108-118: open the sheets, load the atlases, list the frames
LoadInputs ==
    /\ pc = "start"
    /\ LoadError = ""
    /\ frames' = TaggedFrames(disk.atlas0, 0) \o TaggedFrames(disk.atlas1, 1)
    /\ pc' = "extract"
    /\ steps' = Append(steps, "load")
    /\ UNCHANGED <<args, disk, extracted, max_w, max_width, packed, pasted,
                   out_frames, written, html, json_text, prev_html, orig_html, runs,
                   abort_cause>>

LoadFails ==
    /\ pc = "start"
    /\ LoadError # ""
    /\ Abort(LoadError)
    /\ UNCHANGED <<args, disk, frames, extracted, max_w, max_width, packed,
                   pasted, out_frames, written, html, json_text, prev_html,
                   orig_html, runs, steps>>

\* the frame the extraction loop is at
NextFrame == frames[Len(extracted) + 1]

NextSprite ==
    extract_sprite(IF NextFrame.sheet = 0 THEN disk.sheet0 ELSE disk.sheet1,
                   NextFrame.frame)

\* lines 122-136, one iteration
ExtractFrame ==
    /\ pc = "extract"
    /\ Len(extracted) < Len(frames)
    /\ NextSprite.ok
    /\ max_w' = Max(max_w, NextSprite.size.w)
    /\ extracted' = Append(extracted,
           [key |-> NextFrame.key, img |-> NextSprite,
            w |-> NextSprite.size.w, h |-> NextSprite.size.h,
            anchor |-> IF NextFrame.frame.anchor = Absent THEN DefaultAnchor
                       ELSE NextFrame.frame.anchor])
    /\ UNCHANGED <<pc, args, disk, frames, max_width, packed, pasted,
                   out_frames, written, html, json_text, prev_html, orig_html, runs,
                   steps, abort_cause>>

\* extract_sprite raises
ExtractFails ==
    /\ pc = "extract"
    /\ Len(extracted) < Len(frames)
    /\ ~NextSprite.ok
    /\ Abort("extract_failed")
    /\ UNCHANGED <<args, disk, frames, extracted, max_w, max_width, packed,
                   pasted, out_frames, written, html, json_text, prev_html,
                   orig_html, runs, steps>>

\* a widening that keeps the requested width
WidenedNever(requested, widest, padding) == requested

\* lines 138-140
Widened(requested, widest, padding) ==
    IF widest + padding * 2 > requested
    THEN Max(widest + padding * 2, 8192)
    ELSE requested

WidenSheet ==
    /\ pc = "extract"
    /\ Len(extracted) = Len(frames)
    /\ max_width' = Widened(args.max_width, max_w, args.padding)
    /\ pc' = "pack"
    /\ steps' = Append(steps, "extract")
    /\ UNCHANGED <<args, disk, frames, extracted, max_w, packed, pasted,
                   out_frames, written, html, json_text, prev_html, orig_html, runs,
                   abort_cause>>

\* lines 142-143
Pack ==
    /\ pc = "pack"
    /\ packed' = pack_sprites(extracted, max_width, args.padding)
    /\ pc' = "composite"
    /\ steps' = Append(steps, "pack")
    /\ UNCHANGED <<args, disk, frames, extracted, max_w, max_width, pasted,
                   out_frames, written, html, json_text, prev_html, orig_html, runs,
                   abort_cause>>

\* an entry whose frame box is the padded cell
OutEntryPadded(it) ==
    [frame |-> [x |-> it.x - args.padding, y |-> it.y - args.padding,
                w |-> it.w, h |-> it.h],
     rotated |-> FALSE, trimmed |-> FALSE,
     spriteSourceSize |-> [x |-> 0, y |-> 0, w |-> it.w, h |-> it.h],
     sourceSize |-> [w |-> it.w, h |-> it.h],
     anchor |-> it.anchor]

\* lines 148-155: the atlas entry of a placement
OutEntry(it) ==
    [frame |-> [x |-> it.x, y |-> it.y, w |-> it.w, h |-> it.h],
     rotated |-> FALSE, trimmed |-> FALSE,
     spriteSourceSize |-> [x |-> 0, y |-> 0, w |-> it.w, h |-> it.h],
     sourceSize |-> [w |-> it.w, h |-> it.h],
     anchor |-> it.anchor]

\* lines 146-155, one iteration
CompositeOne ==
    /\ pc = "composite"
    /\ Len(pasted) < Len(packed.placed)
    /\ LET it == packed.placed[Len(pasted) + 1]
       IN  /\ pasted' = Append(pasted, [img |-> it.img, x |-> it.x, y |-> it.y])
           /\ out_frames' = DictSet(out_frames, it.key, OutEntry(it))
    /\ UNCHANGED <<pc, args, disk, frames, extracted, max_w, max_width, packed,
                   written, html, json_text, prev_html, orig_html, runs, steps,
                   abort_cause>>

\* the image saved while the frames are still being extracted
WriteImageEarly ==
    /\ pc = "extract"
    /\ "image" \notin written
    /\ written' = written \cup {"image"}
    /\ steps' = Append(steps, "write_image")
    /\ UNCHANGED <<pc, args, disk, frames, extracted, max_w, max_width, packed,
                   pasted, out_frames, html, json_text, prev_html, orig_html,
                   runs, abort_cause>>

\* lines 157-171
WriteImage ==
    /\ pc = "composite"
    /\ Len(pasted) = Len(packed.placed)
    /\ written' = written \cup {"image"}
    /\ pc' = "write_json"
    /\ steps' = steps \o <<"composite", "write_image">>
    /\ UNCHANGED <<args, disk, frames, extracted, max_w, max_width, packed,
                   pasted, out_frames, html, json_text, prev_html, orig_html, runs,
                   abort_cause>>

\* lines 173-175
WriteJson ==
    /\ pc = "write_json"
    /\ written' = written \cup {"json"}
    /\ json_text' = JsonDumps(out_frames, packed.atlas_w, packed.atlas_h)
    /\ pc' = "patch_html"
    /\ steps' = Append(steps, "write_json")
    /\ UNCHANGED <<args, disk, frames, extracted, max_w, max_width, packed,
                   pasted, out_frames, html, prev_html, orig_html, runs, abort_cause>>

\* lines 177-178, --update-html given and update_html returns
PatchHtml ==
    /\ pc = "patch_html"
    /\ args.update_html
    /\ \E doc \in MainDocs :
          /\ update_html(doc, json_text).ok
          /\ orig_html' = doc
          /\ prev_html' = doc
          /\ html' = update_html(doc, json_text).html
    /\ runs' = runs + 1
    /\ pc' = "done"
    /\ steps' = Append(steps, "patch_html")
    /\ UNCHANGED <<args, disk, frames, extracted, max_w, max_width, packed,
                   pasted, out_frames, written, json_text, abort_cause>>

\* lines 177-178, update_html raises
PatchHtmlFails ==
    /\ pc = "patch_html"
    /\ args.update_html
    /\ \E doc \in MainDocs :
          /\ ~update_html(doc, json_text).ok
          /\ orig_html' = doc
          /\ prev_html' = doc
          /\ html' = doc
    /\ Abort("patch_failed")
    /\ UNCHANGED <<args, disk, frames, extracted, max_w, max_width, packed,
                   pasted, out_frames, written, json_text, runs, steps>>

\* line 177, no --update-html
Finish ==
    /\ pc = "patch_html"
    /\ ~args.update_html
    /\ pc' = "done"
    /\ UNCHANGED <<args, disk, frames, extracted, max_w, max_width, packed,
                   pasted, out_frames, written, html, json_text, prev_html,
                   orig_html, runs, steps, abort_cause>>

----------------------------------------------------------------------------
(* Inputs of a run of main *)

Sheet0 == [kind |-> "sheet", id |-> 0, w |-> 32, h |-> 32]
Sheet1 == [kind |-> "sheet", id |-> 1, w |-> 32, h |-> 32]

Frame(fr, rotated, sss, src_size, anchor) ==
    [frame |-> fr, rotated |-> rotated, spriteSourceSize |-> sss,
     sourceSize |-> src_size, anchor |-> anchor]

Box(x, y, w, h) == [x |-> x, y |-> y, w |-> w, h |-> h]

\* a 10x10 sprite, untrimmed
FPlain == Frame(Box(0, 0, 10, 10), FALSE, Absent, Absent, Absent)
\* a 20x5 sprite stored rotated: the region on the sheet is 5 wide, 20 high
FRot == Frame(Box(10, 0, 20, 5), TRUE, Absent, Absent, Absent)
\* a trimmed sprite with an anchor of its own
FTrim == Frame(Box(0, 10, 4, 3), FALSE, Box(1, 1, 4, 3), [w |-> 6, h |-> 5],
               [x |-> 0, y |-> 10])
\* a crop box that leaves the 32x32 sheet
FOut == Frame(Box(30, 30, 10, 10), FALSE, Absent, Absent, Absent)
\* a sprite wider than 8192
FWide == Frame(Box(0, 0, 32, 4), FALSE, Box(0, 0, 32, 4), [w |-> 9000, h |-> 4],
               Absent)
\* an entry without "frame"
FNoFrame == Frame(Absent, FALSE, Absent, Absent, Absent)

FrameSet == {FPlain, FRot, FTrim, FOut, FWide, FNoFrame}

Keys0 == <<"a", "b", "d", "e">>
Keys1 == {"a", "c"}

AtlasOf(keys, fs) ==
    [kind |-> "atlas",
     frames |-> [i \in 1..Len(keys) |-> [key |-> keys[i], frame |-> fs[i]]]]

\* sprites-0.json with up to MaxFrames0 frames
Atlases0 ==
    UNION {{AtlasOf(SubSeq(Keys0, 1, k), fs) : fs \in [1..k -> FrameSet]} :
           k \in 0..Min(MaxFrames0, Len(Keys0))}

\* sprites-1.json: its keys may repeat a key of sprites-0.json
Atlases1 ==
    UNION {{AtlasOf(ks, fs) :
                ks \in {q \in [1..k -> Keys1] :
                          \A i, j \in 1..k : i # j => q[i] # q[j]},
                fs \in [1..k -> FrameSet]} :
           k \in 0..Min(MaxFrames1, Cardinality(Keys1))}

MaxWidthArgs == {16, 4096}
PaddingArgs == {0, 2}

Idle ==
    /\ frames = <<>>
    /\ max_w = 0
    /\ packed = NotPacked
    /\ pasted = <<>>
    /\ out_frames = <<>>
    /\ written = {}
    /\ runs = 0
    /\ steps = <<>>
    /\ abort_cause = ""

\* the four input files all there and well-formed
RunDisks ==
    [sheet0 : {Sheet0}, sheet1 : {Sheet1}, atlas0 : Atlases0,
     atlas1 : Atlases1]

OneFrameAtlas == AtlasOf(<<"a">>, <<FPlain>>)

\* at least one input file absent or not JSON
FailDisks ==
    {d \in [sheet0 : {Missing, Sheet0}, sheet1 : {Missing, Sheet1},
            atlas0 : {Missing, Malformed, OneFrameAtlas},
            atlas1 : {Missing, Malformed, OneFrameAtlas}] :
        \/ d.sheet0 = Missing \/ d.sheet1 = Missing
        \/ d.atlas0 \in {Missing, Malformed}
        \/ d.atlas1 \in {Missing, Malformed}}

\* the command line without the optional arguments
DefaultArgs == [max_width |-> 4096, padding |-> 2, update_html |-> FALSE]

\* The HTML file is read when update_html is called: html stays empty until
\* then.
Init ==
    /\ pc = "start"
    /\ \/ /\ disk \in RunDisks
          /\ args \in [max_width : MaxWidthArgs, padding : PaddingArgs,
                       update_html : BOOLEAN]
       \/ /\ disk \in FailDisks
          /\ args = DefaultArgs
    /\ html = <<>>
    /\ orig_html = <<>>
    /\ prev_html = <<>>
    /\ json_text = <<>>
    /\ extracted = <<>>
    /\ max_width = args.max_width
    /\ Idle

Next ==
    \/ LoadInputs
    \/ LoadFails
    \/ ExtractFrame
    \/ ExtractFails
    \/ WidenSheet
    \/ Pack
    \/ CompositeOne
    \/ WriteImage
    \/ WriteJson
    \/ PatchHtml
    \/ PatchHtmlFails
    \/ Finish

Spec == Init /\ [][Next]_vars

----------------------------------------------------------------------------
(* pack_sprites on its own *)

NoDisk == [sheet0 |-> Missing, sheet1 |-> Missing, atlas0 |-> Missing,
           atlas1 |-> Missing]

\* the items carry their position in the input as key
ItemsOf(sizes) ==
    [i \in 1..Len(sizes) |-> [key |-> i, w |-> sizes[i][1], h |-> sizes[i][2]]]

\* the example of the specification: 10x10 and 20x5, max_width 30, padding 1
ExampleInput ==
    [items |-> ItemsOf(<<(<<10, 10>>), (<<20, 5>>)>>), max_width |-> 30,
     padding |-> 1]

\* the call pack_sprites(inp.items, inp.max_width, inp.padding) is about to run
Calling(inp) ==
    /\ extracted = inp.items
    /\ max_width = inp.max_width
    /\ args = [max_width |-> inp.max_width, padding |-> inp.padding,
               update_html |-> FALSE]

InitPack ==
    /\ pc = "pack"
    /\ \/ \E k \in 0..MaxItems, mw \in 0..MaxSheetW, p \in 0..MaxPad :
             \E sizes \in [1..k -> (0..MaxW) \X (0..MaxH)] :
                Calling([items |-> ItemsOf(sizes), max_width |-> mw,
                         padding |-> p])
       \/ Calling(ExampleInput)
    /\ disk = NoDisk
    /\ html = <<>>
    /\ orig_html = <<>>
    /\ prev_html = <<>>
    /\ json_text = <<>>
    /\ Idle

NextPack == Pack

SpecPack == InitPack /\ [][NextPack]_vars

----------------------------------------------------------------------------
(* update_html on its own *)

HtmlTokens == {SHEETS_START, SHEETS_END, ATLASES_START, ATLASES_END,
               ATLAS_FRAGMENT, SHEET_FRAGMENT, TEXT}

Markers == {SHEETS_START, SHEETS_END, ATLASES_START, ATLASES_END,
            ATLAS_FRAGMENT, SHEET_FRAGMENT}

\* the documents made of the four markers and the two fragments, in any order
FullDocs ==
    {d \in [1..6 -> Markers] : \A i, j \in 1..6 : i # j => d[i] # d[j]}

Docs == SeqsUpTo(HtmlTokens, MaxDocLen) \cup FullDocs \cup MainDocs

\* atlas JSON texts; a sprite key may spell a marker
JsonTexts == {<<"{frames:", "a", "}">>, <<"{frames:", ATLASES_END, "}">>}

InitHtml ==
    /\ pc = "html"
    /\ html \in Docs
    /\ json_text \in JsonTexts
    /\ orig_html = html
    /\ prev_html = html
    /\ args = [max_width |-> 4096, padding |-> 2, update_html |-> TRUE]
    /\ disk = NoDisk
    /\ extracted = <<>>
    /\ max_width = 4096
    /\ Idle

\* lines 55-89, the call returns
UpdateHtmlCall ==
    /\ pc = "html"
    /\ runs < MaxRuns
    /\ update_html(html, json_text).ok
    /\ prev_html' = html
    /\ html' = update_html(html, json_text).html
    /\ runs' = runs + 1
    /\ UNCHANGED <<pc, args, disk, frames, extracted, max_w, max_width, packed,
                   pasted, out_frames, written, json_text, orig_html, steps,
                   abort_cause>>

\* lines 55-89, the call raises
UpdateHtmlRaises ==
    /\ pc = "html"
    /\ runs < MaxRuns
    /\ ~update_html(html, json_text).ok
    /\ Abort("patch_failed")
    /\ UNCHANGED <<args, disk, frames, extracted, max_w, max_width, packed,
                   pasted, out_frames, written, html, json_text, prev_html,
                   orig_html, runs, steps>>

NextHtml == UpdateHtmlCall \/ UpdateHtmlRaises

SpecHtml == InitHtml /\ [][NextHtml]_vars

----------------------------------------------------------------------------
(* Properties of pack_sprites, checked under SpecPack *)

Packed == pc = "composite"

Placed == packed.placed

\* the placed rectangle grown by the padding on every side
PaddedBox(it) ==
    [left |-> it.x - args.padding, right |-> it.x + it.w + args.padding,
     upper |-> it.y - args.padding, lower |-> it.y + it.h + args.padding]

\* the two boxes share a pixel
Overlap(a, b) ==
    /\ Max(a.left, b.left) < Min(a.right, b.right)
    /\ Max(a.upper, b.upper) < Min(a.lower, b.lower)

\* every pixel of the rectangle is in [0, atlas_w) x [0, atlas_h)
InSheet(it) ==
    /\ 0 <= it.x /\ it.x + it.w <= packed.atlas_w
    /\ 0 <= it.y /\ it.y + it.h <= packed.atlas_h

\* max_width >= max(rect.w) + 2*padding, padding >= 0
PackPrecondition ==
    /\ args.padding >= 0
    /\ \A i \in 1..Len(extracted) :
          /\ extracted[i].w >= 0 /\ extracted[i].h >= 0
          /\ max_width >= extracted[i].w + 2 * args.padding

\* C1: when max_width is at least the widest rectangle plus twice the padding,
\* no two padded boxes of placed rectangles overlap and every placed rectangle
\* lies within [0, max_width) x [0, returned sheet height).
C1_NoOverlapInSheet ==
    (Packed /\ PackPrecondition) =>
        /\ packed.atlas_w = max_width
        /\ Len(Placed) = Len(extracted)
        /\ \A i, j \in 1..Len(Placed) :
              i # j => ~Overlap(PaddedBox(Placed[i]), PaddedBox(Placed[j]))
        /\ \A i \in 1..Len(Placed) : InSheet(Placed[i])

\* three rectangles of positive size and padding on two shelves
C1_Witness ==
    /\ Packed /\ PackPrecondition
    /\ args.padding > 0
    /\ Len(Placed) = 3
    /\ \A i \in 1..3 : Placed[i].w > 0 /\ Placed[i].h > 0
    /\ packed.shelves[3] = 1
    /\ packed.shelves[2] = 0

ExampleRun ==
    /\ Packed
    /\ extracted = ExampleInput.items
    /\ max_width = ExampleInput.max_width
    /\ args.padding = ExampleInput.padding

\* C7 as stated: the 10x10 and the 20x5 sprite with max_width 30 and padding 1
\* share one shelf, and the sheet is one shelf high.
C7_OneShelf ==
    ExampleRun =>
        /\ Placed[1].y = Placed[2].y
        /\ packed.atlas_h = 1 + (10 + 2)

\* C7 amended: the 10x10 sprite is placed at (2,2); the 20x5 sprite does not
\* fit behind it (13 + 22 > 30), starts a second shelf at (2,14), and the sheet
\* is 30 wide and 20 high.
C7_TwoShelves ==
    ExampleRun =>
        /\ Len(Placed) = 2
        /\ Placed[1].w = 10 /\ Placed[1].x = 2 /\ Placed[1].y = 2
        /\ Placed[2].w = 20 /\ Placed[2].x = 2 /\ Placed[2].y = 14
        /\ packed.shelves = <<0, 1>>
        /\ packed.atlas_w = 30
        /\ packed.atlas_h = 20

C7_Witness == ExampleRun /\ Len(Placed) = 2

\* C10: rectangles are placed in order of non-increasing height, those of equal
\* height in their input order (the earlier one on an earlier shelf, or on the
\* same shelf with its cell to the left of the later one's).
C10_StableHeightOrder ==
    Packed =>
        /\ Len(Placed) = Len(extracted)
        /\ {Placed[i].key : i \in 1..Len(Placed)} = 1..Len(extracted)
        /\ \A i \in 1..Len(Placed) :
              /\ Placed[i].w = extracted[Placed[i].key].w
              /\ Placed[i].h = extracted[Placed[i].key].h
        /\ \A i, j \in 1..Len(Placed) :
              i < j =>
                /\ Placed[i].h >= Placed[j].h
                /\ Placed[i].h = Placed[j].h => Placed[i].key < Placed[j].key
        /\ \A i, j \in 1..Len(Placed) :
              (Placed[i].h = Placed[j].h /\ Placed[i].key < Placed[j].key) =>
                \/ packed.shelves[i] < packed.shelves[j]
                \/ /\ packed.shelves[i] = packed.shelves[j]
                   /\ PaddedBox(Placed[i]).right <= PaddedBox(Placed[j]).left

\* two rectangles of one height behind a higher one that came last in the input
C10_Witness ==
    /\ Packed
    /\ Len(extracted) = 3
    /\ extracted[1].h = extracted[2].h
    /\ extracted[3].h > extracted[1].h
    /\ extracted[1].w # extracted[2].w
    /\ Placed[1].key = 3 /\ Placed[2].key = 1 /\ Placed[3].key = 2

----------------------------------------------------------------------------
(* Properties of main, checked under Spec *)

Done == pc = "done"

AtlasKeys(atlas) == {atlas.frames[i].key : i \in 1..Len(atlas.frames)}

InputKeys == AtlasKeys(disk.atlas0) \cup AtlasKeys(disk.atlas1)

\* the keys json.dumps wrote, in order
WrittenKeys == SubSeq(json_text, 2, Len(json_text) - 4)

Times(seq, v) == Cardinality({i \in 1..Len(seq) : seq[i] = v})

\* C4: after a successful run the keys of the output atlas are the union of the
\* keys of the two input atlases, each exactly once.
C4_KeyUnion ==
    Done =>
        /\ Keys(out_frames) = InputKeys
        /\ \A k \in InputKeys :
              /\ Cardinality({i \in 1..Len(out_frames) : out_frames[i].key = k}) = 1
              /\ Times(WrittenKeys, k) = 1
        /\ Len(out_frames) = Cardinality(InputKeys)
        /\ Len(WrittenKeys) = Cardinality(InputKeys)

\* a key of sprites-0.json repeated in sprites-1.json, and another key
C4_Witness ==
    /\ Done
    /\ AtlasKeys(disk.atlas0) \cap AtlasKeys(disk.atlas1) # {}
    /\ Cardinality(InputKeys) >= 2

\* the index in placed of the sprite composited last under key k
LastPlaced(k) ==
    CHOOSE i \in 1..Len(Placed) :
        /\ Placed[i].key = k
        /\ \A j \in 1..Len(Placed) : Placed[j].key = k => j <= i

AnchorOf(frame) == IF frame.anchor = Absent THEN DefaultAnchor ELSE frame.anchor

SheetOf(n) == IF n = 0 THEN disk.sheet0 ELSE disk.sheet1

\* the entry describes the placement it: its box, no rotation, no trim, its
\* size, and the anchor of the source frame the sprite was extracted from
EntryOf(e, it) ==
    /\ e.frame = [x |-> it.x, y |-> it.y, w |-> it.w, h |-> it.h]
    /\ e.rotated = FALSE
    /\ e.trimmed = FALSE
    /\ e.spriteSourceSize = [x |-> 0, y |-> 0, w |-> it.w, h |-> it.h]
    /\ e.sourceSize = [w |-> it.w, h |-> it.h]
    /\ \E j \in 1..Len(frames) :
          /\ frames[j].key = it.key
          /\ extract_sprite(SheetOf(frames[j].sheet), frames[j].frame) = it.img
          /\ e.anchor = AnchorOf(frames[j].frame)

\* C5 as stated: as many atlas entries as sprites composited onto the sheet,
\* each describing its sprite's placement.
C5_EntryPerSprite ==
    Done =>
        /\ Len(out_frames) = Len(pasted)
        /\ \A i \in 1..Len(Placed) :
              \E n \in 1..Len(out_frames) :
                  /\ out_frames[n].key = Placed[i].key
                  /\ EntryOf(out_frames[n].entry, Placed[i])

\* C5 amended: one entry per distinct key; as many entries as sprites when no
\* key occurs in both input atlases; the entry of a key describes the sprite
\* composited last under that key.
C5_EntryPerKey ==
    Done =>
        /\ Len(pasted) = Len(frames)
        /\ Len(out_frames) = Cardinality({frames[i].key : i \in 1..Len(frames)})
        /\ (AtlasKeys(disk.atlas0) \cap AtlasKeys(disk.atlas1) = {})
              => Len(out_frames) = Len(pasted)
        /\ \A n \in 1..Len(out_frames) :
              /\ \E i \in 1..Len(Placed) : Placed[i].key = out_frames[n].key
              /\ EntryOf(out_frames[n].entry, Placed[LastPlaced(out_frames[n].key)])

\* a key in both atlases whose two sprites differ, and a trimmed sprite with an
\* anchor of its own
C5_Witness ==
    /\ Done
    /\ Len(pasted) = 3
    /\ Len(out_frames) = 2
    /\ \E i, j \in 1..3 :
          /\ Placed[i].key = Placed[j].key
          /\ Placed[i].w # Placed[j].w
    /\ \E n \in 1..2 : out_frames[n].entry.anchor # DefaultAnchor

Widest == IF extracted = <<>> THEN 0
          ELSE CHOOSE w \in {extracted[i].w : i \in 1..Len(extracted)} :
                   \A i \in 1..Len(extracted) : extracted[i].w <= w

\* main has reached the call of pack_sprites
Widening == "extract" \in Range(steps)

\* C6: the width handed to pack_sprites is at least the widest sprite plus
\* twice the padding: the requested width when that suffices, else
\* max(widest + 2*padding, 8192), never less than the requested width.
C6_WideEnough ==
    Widening =>
        /\ max_width >= Widest + 2 * args.padding
        /\ \A i \in 1..Len(extracted) :
              max_width >= extracted[i].w + 2 * args.padding
        /\ max_width >= args.max_width
        /\ IF args.max_width >= Widest + 2 * args.padding
           THEN max_width = args.max_width
           ELSE /\ max_width >= 8192
                /\ max_width \in {8192, Widest + 2 * args.padding}
        /\ Packed => packed.atlas_w = max_width

\* the requested 16 is too narrow for a 20 wide sprite: the floor applies
C6_Witness ==
    /\ pc = "pack"
    /\ args.max_width = 16
    /\ Widest = 20
    /\ max_width = 8192

StepOrder == <<"load", "extract", "pack", "composite", "write_image",
               "write_json", "patch_html">>

IsPrefix(s, t) ==
    /\ Len(s) <= Len(t)
    /\ \A i \in 1..Len(s) : s[i] = t[i]

\* C8: the steps run in the order load, extract, pack, composite, write image,
\* write JSON, patch HTML, none twice; a run aborted by a missing input,
\* malformed JSON or a failing extraction has written neither output.
C8_SequentialNoPartialOutput ==
    /\ IsPrefix(steps, StepOrder)
    /\ ("image" \in written) <=> ("write_image" \in Range(steps))
    /\ ("json" \in written) <=> ("write_json" \in Range(steps))
    /\ written # {} =>
          /\ Len(extracted) = Len(frames)
          /\ Len(Placed) = Len(extracted)
          /\ Len(pasted) = Len(Placed)
    /\ (pc = "aborted"
          /\ abort_cause \in {"missing_input", "malformed_json", "extract_failed"})
          => written = {}

\* the second frame fails to extract after the first was extracted
C8_Witness ==
    /\ pc = "aborted"
    /\ abort_cause = "extract_failed"
    /\ Len(extracted) >= 1
    /\ written = {}

\* C9: extract_sprite fails whenever the crop box leaves the source sheet, so
\* every sprite that was extracted had its crop box inside its sheet.
C9_OutOfBoundsFails ==
    \A i \in 1..Len(extracted) :
        BoxInSheet(CropBox(frames[i].frame.frame, frames[i].frame.rotated),
                   SheetOf(frames[i].sheet))

----------------------------------------------------------------------------
(* Properties of update_html, checked under SpecHtml *)

\* position of the first sep in s, 0 when there is none
First(s, sep) ==
    IF Contains(s, sep)
    THEN CHOOSE k \in 1..Len(s) : s[k] = sep /\ \A m \in 1..(k - 1) : s[m] # sep
    ELSE 0

\* a START marker followed by its END marker
HasPair(doc, start, end) ==
    \E i, j \in 1..Len(doc) : i < j /\ doc[i] = start /\ doc[j] = end

\* the document holds both marker pairs and both fixed fragments
FullDoc(doc) ==
    /\ HasPair(doc, SHEETS_START, SHEETS_END)
    /\ HasPair(doc, ATLASES_START, ATLASES_END)
    /\ Contains(doc, ATLAS_FRAGMENT)
    /\ Contains(doc, SHEET_FRAGMENT)

\* C2: on a document with both marker pairs and both fragments, a second
\* update_html with the same JSON text leaves the document as the first left it.
C2_SecondRunIdentical ==
    (runs = 2 /\ FullDoc(orig_html)) => html = prev_html

\* C3: update_html never raises; a replacement whose marker pair or fragment is
\* missing is skipped.
C3_NeverRaises ==
    pc # "aborted"

====
